---- MODULE Spec2Model ----
(***************************************************************************)
(* code2md.py: walk a directory tree, keep the files with a known code     *)
(* extension that no exclusion regex matches, and write them into one      *)
(* Markdown document (header, index, one block per file).                  *)
(*                                                                         *)
(* Paths and file names are sequences of one-character strings, so that    *)
(* re.search, os.path.join, os.path.relpath, Path.suffix and sorted() are  *)
(* computed character by character as the Python code computes them.       *)
(***************************************************************************)
EXTENDS Integers, Sequences, FiniteSets

(* ---------------------------- bounds ---------------------------------- *)
MaxFiles == 3      \* files in the scanned tree
MaxRuns  == 2      \* successive runs of the tool with the same arguments

(* ----------------------- regular expressions -------------------------- *)
\* A pattern is a sequence of tokens: a literal character, "." (AnyChar),
\* ".*" (Star), "^" (Bol), "$" (Eol), or an unbalanced "(" (Bad), which
\* makes re.search raise re.error.  Bar is the "|" that main() splits on.
Lit(c) == [t |-> "lit", c |-> c]
AnyChar == [t |-> "any", c |-> ""]
Star   == [t |-> "star", c |-> ""]
Bol    == [t |-> "bol", c |-> ""]
Eol    == [t |-> "eol", c |-> ""]
Bad    == [t |-> "bad", c |-> ""]
Bar    == [t |-> "bar", c |-> ""]
Lits(s) == [k \in 1..Len(s) |-> Lit(s[k])]

RECURSIVE MatchHere(_, _, _, _)
\* does pat[k..] match s starting at position j
MatchHere(pat, k, s, j) ==
    IF k > Len(pat) THEN TRUE
    ELSE CASE pat[k].t = "lit"  -> /\ j <= Len(s)
                                   /\ s[j] = pat[k].c
                                   /\ MatchHere(pat, k + 1, s, j + 1)
           [] pat[k].t = "any"  -> /\ j <= Len(s)
                                   /\ MatchHere(pat, k + 1, s, j + 1)
           [] pat[k].t = "star" -> \E n \in j..(Len(s) + 1) : MatchHere(pat, k + 1, s, n)
           [] pat[k].t = "bol"  -> j = 1 /\ MatchHere(pat, k + 1, s, j)
           [] pat[k].t = "eol"  -> j = Len(s) + 1 /\ MatchHere(pat, k + 1, s, j)
           [] OTHER             -> FALSE

Compiles(pat) == \A k \in 1..Len(pat) : pat[k].t # "bad"

\* re.search(pattern, string): a match anywhere in the string
re_search(pat, s) == \E j \in 1..(Len(s) + 1) : MatchHere(pat, 1, s, j)

(* ------------------------ RepoToMarkdown tables ----------------------- *)
default_ignore ==
    << Lits(<<".","g","i","t","/">>) \o <<Star>>,
       Lits(<<".","g","i","t","i","g","n","o","r","e">>),
       Lits(<<"_","_","p","y","c","a","c","h","e","_","_","/">>) \o <<Star>>,
       Lits(<<".","p","y","c">>) \o <<Eol>>,
       Lits(<<".","p","y","o">>) \o <<Eol>>,
       Lits(<<"n","o","d","e","_","m","o","d","u","l","e","s","/">>) \o <<Star>>,
       Lits(<<".","v","s","c","o","d","e","/">>) \o <<Star>>,
       Lits(<<".","i","d","e","a","/">>) \o <<Star>>,
       Lits(<<".","D","S","_","S","t","o","r","e">>),
       Lits(<<".","e","n","v">>),
       Lits(<<".","l","o","g">>) \o <<Eol>>,
       Lits(<<".","t","m","p">>) \o <<Eol>>,
       Lits(<<".","c","a","c","h","e","/">>) \o <<Star>>,
       Lits(<<"d","i","s","t","/">>) \o <<Star>>,
       Lits(<<"b","u","i","l","d","/">>) \o <<Star>>,
       Lits(<<".","e","g","g","-","i","n","f","o","/">>) \o <<Star>>,
       Lits(<<"v","e","n","v","/">>) \o <<Star>>,
       Lits(<<"e","n","v","/">>) \o <<Star>>,
       Lits(<<".","v","e","n","v","/">>) \o <<Star>>,
       Lits(<<".","p","y","t","e","s","t","_","c","a","c","h","e","/">>) \o <<Star>>,
       Lits(<<".","c","o","v","e","r","a","g","e">>),
       Lits(<<"c","o","v","e","r","a","g","e",".","x","m","l">>),
       Lits(<<".","n","y","c","_","o","u","t","p","u","t","/">>) \o <<Star>>,
       Lits(<<".","n","e","x","t","/">>) \o <<Star>>,
       Lits(<<".","n","u","x","t","/">>) \o <<Star>> >>

code_extensions ==
    { <<<<".","p","y">>, "python">>,
      <<<<".","j","s">>, "javascript">>,
      <<<<".","t","s">>, "typescript">>,
      <<<<".","j","s","x">>, "jsx">>,
      <<<<".","t","s","x">>, "tsx">>,
      <<<<".","j","a","v","a">>, "java">>,
      <<<<".","c">>, "c">>,
      <<<<".","c","p","p">>, "cpp">>,
      <<<<".","c","c">>, "cpp">>,
      <<<<".","c","x","x">>, "cpp">>,
      <<<<".","h">>, "c">>,
      <<<<".","h","p","p">>, "cpp">>,
      <<<<".","c","s">>, "csharp">>,
      <<<<".","p","h","p">>, "php">>,
      <<<<".","r","b">>, "ruby">>,
      <<<<".","g","o">>, "go">>,
      <<<<".","r","s">>, "rust">>,
      <<<<".","s","w","i","f","t">>, "swift">>,
      <<<<".","k","t">>, "kotlin">>,
      <<<<".","s","c","a","l","a">>, "scala">>,
      <<<<".","s","h">>, "bash">>,
      <<<<".","b","a","s","h">>, "bash">>,
      <<<<".","z","s","h">>, "zsh">>,
      <<<<".","f","i","s","h">>, "fish">>,
      <<<<".","p","s","1">>, "powershell">>,
      <<<<".","h","t","m","l">>, "html">>,
      <<<<".","h","t","m">>, "html">>,
      <<<<".","c","s","s">>, "css">>,
      <<<<".","s","c","s","s">>, "scss">>,
      <<<<".","s","a","s","s">>, "sass">>,
      <<<<".","l","e","s","s">>, "less">>,
      <<<<".","x","m","l">>, "xml">>,
      <<<<".","j","s","o","n">>, "json">>,
      <<<<".","y","a","m","l">>, "yaml">>,
      <<<<".","y","m","l">>, "yaml">>,
      <<<<".","t","o","m","l">>, "toml">>,
      <<<<".","i","n","i">>, "ini">>,
      <<<<".","c","f","g">>, "ini">>,
      <<<<".","c","o","n","f">>, "ini">>,
      <<<<".","s","q","l">>, "sql">>,
      <<<<".","r">>, "r">>,
      <<<<".","R">>, "r">>,
      <<<<".","m">>, "matlab">>,
      <<<<".","p","l">>, "perl">>,
      <<<<".","l","u","a">>, "lua">>,
      <<<<".","v","i","m">>, "vim">>,
      <<<<".","d","o","c","k","e","r","f","i","l","e">>, "dockerfile">>,
      <<<<".","D","o","c","k","e","r","f","i","l","e">>, "dockerfile">>,
      <<<<".","m","d">>, "markdown">>,
      <<<<".","m","a","r","k","d","o","w","n">>, "markdown">>,
      <<<<".","t","e","x">>, "latex">>,
      <<<<".","v","u","e">>, "vue">>,
      <<<<".","s","v","e","l","t","e">>, "svelte">>,
      <<<<".","d","a","r","t">>, "dart">>,
      <<<<".","e","l","m">>, "elm">>,
      <<<<".","e","x">>, "elixir">>,
      <<<<".","e","x","s">>, "elixir">>,
      <<<<".","e","r","l">>, "erlang">>,
      <<<<".","h","r","l">>, "erlang">>,
      <<<<".","c","l","j">>, "clojure">>,
      <<<<".","c","l","j","s">>, "clojure">>,
      <<<<".","h","s">>, "haskell">>,
      <<<<".","l","h","s">>, "haskell">>,
      <<<<".","m","l">>, "ocaml">>,
      <<<<".","m","l","i">>, "ocaml">>,
      <<<<".","f","s">>, "fsharp">>,
      <<<<".","f","s","x">>, "fsharp">>,
      <<<<".","j","l">>, "julia">>,
      <<<<".","n","i","m">>, "nim">>,
      <<<<".","n","i","m","s">>, "nim">>,
      <<<<".","c","r">>, "crystal">>,
      <<<<".","z","i","g">>, "zig">>,
      <<<<".","v">>, "v">>,
      <<<<".","s","v">>, "systemverilog">>,
      <<<<".","v","h","d">>, "vhdl">>,
      <<<<".","v","h","d","l">>, "vhdl">> }

Lower(c) ==
    CASE c = "A" -> "a"
      [] c = "B" -> "b"
      [] c = "C" -> "c"
      [] c = "D" -> "d"
      [] c = "E" -> "e"
      [] c = "F" -> "f"
      [] c = "G" -> "g"
      [] c = "H" -> "h"
      [] c = "I" -> "i"
      [] c = "J" -> "j"
      [] c = "K" -> "k"
      [] c = "L" -> "l"
      [] c = "M" -> "m"
      [] c = "N" -> "n"
      [] c = "O" -> "o"
      [] c = "P" -> "p"
      [] c = "Q" -> "q"
      [] c = "R" -> "r"
      [] c = "S" -> "s"
      [] c = "T" -> "t"
      [] c = "U" -> "u"
      [] c = "V" -> "v"
      [] c = "W" -> "w"
      [] c = "X" -> "x"
      [] c = "Y" -> "y"
      [] c = "Z" -> "z"
      [] OTHER -> c

CodePoints ==
    <<"-",".","/","0","1","2","3","4","5","6","7","8","9","A","B","C","D","E","F","G","H","I","J","K","L","M","N","O","P","Q","R","S","T","U","V","W","X","Y","Z","_","a","b","c","d","e","f","g","h","i","j","k","l","m","n","o","p","q","r","s","t","u","v","w","x","y","z">>

(* ----------------------------- strings -------------------------------- *)
\* code point order of the characters, as sorted() compares str values
Ord(c) == CHOOSE k \in 1..Len(CodePoints) : CodePoints[k] = c

RECURSIVE StrLess(_, _)
StrLess(a, b) ==
    IF a = <<>> THEN b # <<>>
    ELSE IF b = <<>> THEN FALSE
    ELSE IF a[1] = b[1] THEN StrLess(Tail(a), Tail(b))
    ELSE Ord(a[1]) < Ord(b[1])

ReverseSorted(S) ==
    LET RECURSIVE Desc(_)
        Desc(R) == IF R = {} THEN <<>>
                   ELSE LET m == CHOOSE x \in R : \A y \in R \ {x} : StrLess(y, x)
                        IN  <<m>> \o Desc(R \ {m})
    IN  Desc(S)

\* sorted(code_files): ascending, the files being distinct paths
sorted(S) ==
    LET RECURSIVE Asc(_)
        Asc(R) == IF R = {} THEN <<>>
                  ELSE LET m == CHOOSE x \in R : \A y \in R \ {x} : StrLess(x, y)
                       IN  <<m>> \o Asc(R \ {m})
    IN  Asc(S)

lower(s) == [k \in 1..Len(s) |-> Lower(s[k])]

os_path_join(a, b) == a \o <<"/">> \o b

\* os.path.relpath(path, start) for a path below start
os_path_relpath(path, start) == SubSeq(path, Len(start) + 2, Len(path))

\* the final component of a path
PathName(path) ==
    LET slashes == {k \in 1..Len(path) : path[k] = "/"}
        last    == IF slashes = {} THEN 0
                   ELSE CHOOSE k \in slashes : \A n \in slashes : n <= k
    IN  SubSeq(path, last + 1, Len(path))

\* Path(path).suffix: from the last dot of the name, unless the dot is the
\* first or the last character of the name
PathSuffix(path) ==
    LET name == PathName(path)
        dots == {k \in 1..Len(name) : name[k] = "."}
        last == IF dots = {} THEN 0
                ELSE CHOOSE k \in dots : \A n \in dots : n <= k
    IN  IF last > 1 /\ last < Len(name) THEN SubSeq(name, last, Len(name)) ELSE <<>>

(* --------------------------- RepoToMarkdown --------------------------- *)
\* should_ignore with the user patterns replacing the defaults
should_ignore_user_only(file_path, ignore_patterns) ==
    LET all_patterns == IF ignore_patterns # <<>> THEN ignore_patterns ELSE default_ignore
        RECURSIVE Loop(_)
        Loop(k) == IF k > Len(all_patterns) THEN "no"
                   ELSE IF ~Compiles(all_patterns[k]) THEN "error"
                   ELSE IF re_search(all_patterns[k], file_path) THEN "yes"
                   ELSE Loop(k + 1)
    IN  Loop(1)

\* "yes" / "no", or "error" when re.search raises on a pattern it reaches
should_ignore(file_path, ignore_patterns) ==
    LET all_patterns == default_ignore \o ignore_patterns
        RECURSIVE Loop(_)
        Loop(k) == IF k > Len(all_patterns) THEN "no"
                   ELSE IF ~Compiles(all_patterns[k]) THEN "error"
                   ELSE IF re_search(all_patterns[k], file_path) THEN "yes"
                   ELSE Loop(k + 1)
    IN  Loop(1)

get_language_from_extension(file_path) ==
    LET ext == lower(PathSuffix(file_path))
    IN  IF \E e \in code_extensions : e[1] = ext
        THEN (CHOOSE e \in code_extensions : e[1] = ext)[2]
        ELSE "text"

is_code_file(file_path) ==
    LET ext == lower(PathSuffix(file_path))
    IN  \E e \in code_extensions : e[1] = ext

(* ---------------------------- file system ----------------------------- *)
\* A file of the tree: the directories from the root down to it, its name,
\* and what its bytes are: valid UTF-8 ("utf8"), bytes that are not valid
\* UTF-8 ("bytes"), a file open() fails on ("denied"), or the output
\* document of the tool itself ("output").
File(dir, name, kind) == [dir |-> dir, name |-> name, kind |-> kind]

RECURSIVE JoinAll(_, _)
JoinAll(base, segs) ==
    IF segs = <<>> THEN base ELSE JoinAll(os_path_join(base, segs[1]), Tail(segs))

FullPath(directory, f) == os_path_join(JoinAll(directory, f.dir), f.name)

IsPrefix(p, s) == Len(p) <= Len(s) /\ SubSeq(s, 1, Len(p)) = p

\* os.walk(directory), top-down, with the body of the loop of
\* scan_directory, at the directory `top` (whose directories below the root
\* are `segs`) and below it: <<"file", path>> for each file appended to
\* code_files, and <<"raise">> if a should_ignore call raised.  Each verdict
\* is computed once, in the set the UNION ranges over.
RECURSIVE Walk(_, _, _, _, _)
Walk(directory, top, segs, tree, pats) ==
    LET below == {f \in tree : Len(f.dir) > Len(segs) /\ IsPrefix(segs, f.dir)}
        dirs  == {f.dir[Len(segs) + 1] : f \in below}
        files == {f \in tree : f.dir = segs}
    IN  UNION { IF v[2] = "error" THEN {<<"raise">>}
                ELSE IF v[2] = "no"
                THEN Walk(directory, os_path_join(top, v[1]), Append(segs, v[1]), tree, pats)
                ELSE {}
                : v \in {<<d, should_ignore(os_path_join(top, d), pats)>> : d \in dirs} }
        \cup
        UNION { IF v[2] = "error" THEN {<<"raise">>}
                ELSE IF v[2] = "no" /\ is_code_file(v[1]) THEN {<<"file", v[1]>>}
                ELSE {}
                : v \in {<<os_path_join(top, f.name),
                           should_ignore(os_path_relpath(os_path_join(top, f.name), directory),
                                         pats)>> : f \in files} }

scan_directory(directory, tree, pats) ==
    CHOOSE r \in { [raised |-> <<"raise">> \in w,
                    files  |-> IF <<"raise">> \in w THEN <<>>
                               ELSE sorted({e[2] : e \in w})]
                   : w \in {Walk(directory, directory, <<>>, tree, pats)} } : TRUE

\* get_file_content without the "except Exception" clause: an OSError escapes
get_file_content_no_except(f, path, flushed) ==
    LET encodings == <<"utf-8", "latin-1", "cp1252", "iso-8859-1">>
        outcome(enc) ==
            CASE f.kind = "denied" -> "OSError"
              [] f.kind = "bytes"  -> IF enc \in {"latin-1", "iso-8859-1"}
                                      THEN "ok" ELSE "UnicodeDecodeError"
              [] OTHER             -> "ok"
        RECURSIVE Loop(_)
        Loop(k) ==
            IF k > Len(encodings)
            THEN [raised |-> FALSE, text |-> <<"# Arquivo nao pode ser decodificado">>]
            ELSE CASE outcome(encodings[k]) = "ok" ->
                        [raised |-> FALSE,
                         text   |-> IF f.kind = "output"
                                    THEN <<"flushed blocks", flushed>>
                                    ELSE <<"content", path, encodings[k]>>]
                   [] outcome(encodings[k]) = "UnicodeDecodeError" -> Loop(k + 1)
                   [] OTHER -> [raised |-> TRUE, text |-> <<"OSError", path>>]
    IN  Loop(1)

\* The content of the file at `path`: the text under the first encoding that
\* decodes it, or a placeholder (written here without its accents).  Reading the output document while it is
\* being written returns the blocks flushed so far.
get_file_content(f, path, flushed) ==
    LET encodings == <<"utf-8", "latin-1", "cp1252", "iso-8859-1">>
        outcome(enc) ==
            CASE f.kind = "denied" -> "OSError"
              [] f.kind = "bytes"  -> IF enc \in {"latin-1", "iso-8859-1"}
                                      THEN "ok" ELSE "UnicodeDecodeError"
              [] OTHER             -> "ok"
        RECURSIVE Loop(_)
        Loop(k) ==
            IF k > Len(encodings)
            THEN [raised |-> FALSE, text |-> <<"# Arquivo nao pode ser decodificado">>]
            ELSE CASE outcome(encodings[k]) = "ok" ->
                        [raised |-> FALSE,
                         text   |-> IF f.kind = "output"
                                    THEN <<"flushed blocks", flushed>>
                                    ELSE <<"content", path, encodings[k]>>]
                   [] outcome(encodings[k]) = "UnicodeDecodeError" -> Loop(k + 1)
                   [] OTHER -> [raised |-> FALSE, text |-> <<"# Erro ao ler arquivo", path>>]
    IN  Loop(1)

(* ------------------------------ main() -------------------------------- *)
\* pattern.split('|') for each -x value, concatenated
RECURSIVE split(_)
split(arg) ==
    LET bars == {k \in 1..Len(arg) : arg[k].t = "bar"}
    IN  IF bars = {} THEN <<arg>>
        ELSE LET b == CHOOSE k \in bars : \A n \in bars : k <= n
             IN  <<SubSeq(arg, 1, b - 1)>> \o split(SubSeq(arg, b + 1, Len(arg)))

RECURSIVE ignore_patterns_of(_)
ignore_patterns_of(exclude) ==
    IF exclude = <<>> THEN <<>>
    ELSE split(exclude[1]) \o ignore_patterns_of(Tail(exclude))

endswith(s, e) == Len(e) <= Len(s) /\ SubSeq(s, Len(s) - Len(e) + 1, Len(s)) = e

(* ------------------------- the modelled inputs ------------------------ *)
tmp   == <<"t","m","p">>
sub   == <<"s","u","b">>
build == <<"b","u","i","l","d">>

Candidates ==
    { File(<<>>,         <<"a",".","p","y">>,     "utf8"),
      File(<<>>,         <<"b",".","t","x","t">>, "utf8"),
      File(<<tmp>>,      <<"c",".","j","s">>,     "denied"),
      File(<<tmp, sub>>, <<"d",".","P","Y">>,     "bytes"),
      File(<<build>>,    <<"e",".","p","y">>,     "utf8") }

Trees == {T \in SUBSET Candidates : Cardinality(T) <= MaxFiles}

\* the root directory as given on the command line
Roots == { <<"p">>, <<"b","u","i","l","d","/","p">> }

\* values of -x:  ^tmp$   tmp   (   c\.js|^a
ExcludeTmpOnly == <<Bol>> \o Lits(tmp) \o <<Eol>>
ExcludeTmp     == Lits(tmp)
ExcludeBad     == <<Bad>>
ExcludeTwo     == Lits(<<"c",".","j","s">>) \o <<Bar, Bol>> \o Lits(<<"a">>)

ExcludeArgs == {ExcludeTmpOnly, ExcludeTmp, ExcludeBad, ExcludeTwo}

\* the -x values of a command line: none, one, or two
Excludes ==
    { <<>>, <<ExcludeTmpOnly>>, <<ExcludeTmp>>, <<ExcludeBad>>, <<ExcludeTwo>>,
      <<ExcludeTwo, ExcludeTmpOnly>> }

\* -o: a document in the root directory, a text file in the root directory,
\* or a document in a directory outside the root, which may not exist yet
Outputs ==
    { [dir |-> "root", name |-> <<"o","u","t",".","m","d">>],
      [dir |-> "root", name |-> <<"o","u","t",".","t","x","t">>],
      [dir |-> "new",  name |-> <<"o","u","t",".","m","d">>] }

Faults == {"none", "makedirs", "open", "write"}

Absent == [exists |-> FALSE, old |-> FALSE, title |-> <<>>, total |-> 0,
           index |-> <<>>, headings |-> <<>>, blocks |-> <<>>]
\* a file that was at the output path before the tool ran
Old    == [Absent EXCEPT !.exists = TRUE, !.old = TRUE]

(* ------------------------------- state -------------------------------- *)
VARIABLES
    directory,       \* args.directory
    output,          \* args.output
    exclude,         \* args.exclude: the -x values, in order
    rootIsDir,       \* os.path.isdir(args.directory)
    tree,            \* the files below the root, the output document apart
    fault,           \* the operation the environment makes fail, if any
    outDirExists,    \* os.path.exists(output_dir)
    outfile,         \* the file at the output path
    startOut,        \* the file at the output path when the run started
    run,             \* number of the current run
    pc,              \* position of the run
    ignore_patterns, \* converter.ignore_patterns
    code_files,      \* code_files of generate_markdown
    i,               \* loop index of generate_markdown
    rc,              \* value returned by main: 0 or 1, -1 while none
    trace,           \* what the run has done so far, in order
    q                \* the scans of SpecScan

vars == <<directory, output, exclude, rootIsDir, tree, fault, outDirExists,
          outfile, startOut, run, pc, ignore_patterns, code_files, i, rc,
          trace, q>>

inputs == <<directory, output, exclude, rootIsDir, tree, fault>>

QIdle == [phase |-> "off"]

\* the output path, when it lies in the root directory
OutputFile == File(<<>>, output.name, "output")

\* what os.walk finds below the root
Visible ==
    tree \cup (IF output.dir = "root" /\ outfile.exists THEN {OutputFile} ELSE {})

FileAt(path) == CHOOSE f \in Visible : FullPath(directory, f) = path

\* the heading of a block carrying file_path instead of relative_path
heading_full_path(file_path) == file_path

\* the relative path written in the heading of a block
heading(file_path) == os_path_relpath(file_path, directory)

\* the relative path written in an index entry
index_entry(file_path) == os_path_relpath(file_path, directory)

no_code_files_never(files) == FALSE

\* "if not code_files"
no_code_files(files) == files = <<>>

\* open(output_file, 'a'): the document is appended to what is there
open_append(old, title, total) ==
    IF old.exists /\ ~old.old
    THEN [old EXCEPT !.title = title, !.total = total]
    ELSE [exists |-> TRUE, old |-> FALSE, title |-> title, total |-> total,
          index |-> <<>>, headings |-> <<>>, blocks |-> <<>>]

\* open(output_file, 'w') and the three header lines
open_write(old, title, total) ==
    [exists |-> TRUE, old |-> FALSE, title |-> title, total |-> total,
     index |-> <<>>, headings |-> <<>>, blocks |-> <<>>]

main_except_returns_0(e) == [rc |-> 0, event |-> <<"caught", e>>]

\* "except Exception as e" of main
main_except(e) == [rc |-> 1, event |-> <<"caught", e>>]

Init ==
    /\ directory \in Roots
    /\ output \in Outputs
    /\ exclude \in Excludes
    /\ rootIsDir \in BOOLEAN
    /\ tree \in IF rootIsDir THEN Trees ELSE {{}}
    /\ outDirExists \in IF output.dir = "root" THEN {rootIsDir} ELSE BOOLEAN
    /\ fault \in IF outDirExists THEN Faults \ {"makedirs"} ELSE Faults
    /\ outfile \in IF outDirExists THEN {Absent, Old} ELSE {Absent}
    /\ startOut = outfile
    /\ run = 1
    /\ pc = "main"
    /\ ignore_patterns = <<>>
    /\ code_files = <<>>
    /\ i = 0
    /\ rc = -1
    /\ trace = <<>>
    /\ q = QIdle

\* main 264-273, without the isdir test
ValidateNoCheck ==
    /\ pc = "main"
    /\ pc' = "makedirs"
    /\ trace' = trace
    /\ UNCHANGED <<inputs, outDirExists, outfile, startOut, run,
                   ignore_patterns, code_files, i, rc, q>>

\* main 264-273: the root must be a directory; warn about the extension
Validate ==
    /\ pc = "main"
    /\ IF ~rootIsDir
       THEN /\ rc' = 1
            /\ pc' = "exit"
            /\ trace' = Append(trace, <<"not found", directory>>)
       ELSE /\ rc' = rc
            /\ pc' = "makedirs"
            /\ trace' = IF endswith(output.name, <<".","m","d">>) THEN trace
                        ELSE Append(trace, <<"warning">>)
    /\ UNCHANGED <<inputs, outDirExists, outfile, startOut, run,
                   ignore_patterns, code_files, i, q>>

\* main 275-285: create the output directory, split the -x values
MakeDirs ==
    /\ pc = "makedirs"
    /\ IF ~outDirExists /\ fault = "makedirs"
       THEN /\ pc' = "raised"
            /\ trace' = Append(trace, <<"uncaught", "makedirs">>)
            /\ UNCHANGED <<outDirExists, ignore_patterns>>
       ELSE /\ pc' = "scan"
            /\ outDirExists' = TRUE
            /\ ignore_patterns' = ignore_patterns_of(exclude)
            /\ trace' = IF outDirExists THEN trace ELSE Append(trace, <<"makedirs">>)
    /\ UNCHANGED <<inputs, outfile, startOut, run, code_files, i, rc, q>>

\* generate_markdown 186-193
Scan ==
    /\ pc = "scan"
    /\ \E r \in {scan_directory(directory, Visible, ignore_patterns)} :
           IF r.raised
           THEN /\ rc' = main_except("re.error").rc
                /\ trace' = Append(trace, main_except("re.error").event)
                /\ pc' = "exit"
                /\ UNCHANGED code_files
           ELSE IF no_code_files(r.files)
           THEN /\ rc' = 0
                /\ trace' = trace \o << <<"scan">>, <<"no files">> >>
                /\ pc' = "exit"
                /\ UNCHANGED code_files
           ELSE /\ rc' = rc
                /\ trace' = Append(trace, <<"scan">>)
                /\ pc' = "open"
                /\ code_files' = r.files
    /\ UNCHANGED <<inputs, outDirExists, outfile, startOut, run,
                   ignore_patterns, i, q>>

\* generate_markdown 196-204
Open ==
    /\ pc = "open"
    /\ IF fault = "open"
       THEN /\ rc' = main_except("open").rc
            /\ trace' = Append(trace, main_except("open").event)
            /\ pc' = "exit"
            /\ UNCHANGED <<outfile, i>>
       ELSE /\ outfile' = open_write(outfile, PathName(directory), Len(code_files))
            /\ trace' = Append(trace, <<"open">>)
            /\ pc' = "index"
            /\ i' = 1
            /\ rc' = rc
    /\ UNCHANGED <<inputs, outDirExists, startOut, run, ignore_patterns,
                   code_files, q>>

\* generate_markdown 205-208: one index entry
IndexEntry ==
    /\ pc = "index"
    /\ i <= Len(code_files)
    /\ outfile' = [outfile EXCEPT !.index = Append(@, index_entry(code_files[i]))]
    /\ trace' = Append(trace, <<"index", os_path_relpath(code_files[i], directory)>>)
    /\ i' = i + 1
    /\ UNCHANGED <<inputs, outDirExists, startOut, run, pc, ignore_patterns,
                   code_files, rc, q>>

\* generate_markdown 209: the index is complete
IndexDone ==
    /\ pc = "index"
    /\ i > Len(code_files)
    /\ pc' = "body"
    /\ i' = 1
    /\ UNCHANGED <<inputs, outDirExists, outfile, startOut, run,
                   ignore_patterns, code_files, rc, trace, q>>

\* generate_markdown 212-230: the heading, the content and the block of one
\* file.  fault = "write" makes the write of the first content fail.
RenderFile ==
    /\ pc = "body"
    /\ i <= Len(code_files)
    /\ \E flushed \in {0, Len(outfile.blocks)} :
         LET file_path == code_files[i]
             rel       == os_path_relpath(file_path, directory)
             language  == get_language_from_extension(file_path)
             content   == get_file_content(FileAt(file_path), rel, flushed)
             headed    == [outfile EXCEPT !.headings = Append(@, heading(file_path))]
         IN  IF content.raised
             THEN /\ outfile' = headed
                  /\ rc' = main_except("read").rc
                  /\ trace' = Append(trace, main_except("read").event)
                  /\ pc' = "exit"
                  /\ i' = i
             ELSE IF fault = "write" /\ i = 1
             THEN /\ outfile' = headed
                  /\ rc' = main_except("write").rc
                  /\ trace' = trace \o << <<"read", rel>>, main_except("write").event >>
                  /\ pc' = "exit"
                  /\ i' = i
             ELSE /\ outfile' = [headed EXCEPT !.blocks =
                                    Append(@, [language |-> language, content |-> content.text])]
                  /\ trace' = trace \o << <<"read", rel>>, <<"block", rel>> >>
                  /\ i' = i + 1
                  /\ UNCHANGED <<rc, pc>>
    /\ UNCHANGED <<inputs, outDirExists, startOut, run, ignore_patterns,
                   code_files, q>>

\* generate_markdown 232-233 and main 289-290
Finish ==
    /\ pc = "body"
    /\ i > Len(code_files)
    /\ rc' = 0
    /\ pc' = "exit"
    /\ trace' = Append(trace, <<"done">>)
    /\ UNCHANGED <<inputs, outDirExists, outfile, startOut, run,
                   ignore_patterns, code_files, i, q>>

Terminated == pc \in {"exit", "raised"}

\* the tool is run again with the same arguments
Rerun ==
    /\ Terminated
    /\ run < MaxRuns
    /\ run' = run + 1
    /\ startOut' = outfile
    /\ pc' = "main"
    /\ ignore_patterns' = <<>>
    /\ code_files' = <<>>
    /\ i' = 0
    /\ rc' = -1
    /\ trace' = <<>>
    /\ UNCHANGED <<inputs, outDirExists, outfile, q>>

Next ==
    \/ Validate
    \/ MakeDirs
    \/ Scan
    \/ Open
    \/ IndexEntry
    \/ IndexDone
    \/ RenderFile
    \/ Finish
    \/ Rerun

Spec == Init /\ [][Next]_vars

(* ---------------- scans of one tree under varied arguments ------------ *)
NoResult == [raised |-> FALSE, files |-> <<>>]

InitScan ==
    /\ q \in [phase : {"start"}, tree : Trees, dir : Roots, other : Roots,
              exclude : Excludes, more : ExcludeArgs,
              first : {NoResult}, moved : {NoResult}, extended : {NoResult}]
    /\ directory = <<"p">>
    /\ output = [dir |-> "new", name |-> <<"o","u","t",".","m","d">>]
    /\ exclude = <<>>
    /\ rootIsDir = TRUE
    /\ tree = {}
    /\ fault = "none"
    /\ outDirExists = FALSE
    /\ outfile = Absent
    /\ startOut = Absent
    /\ run = 1
    /\ pc = "off"
    /\ ignore_patterns = <<>>
    /\ code_files = <<>>
    /\ i = 0
    /\ rc = -1
    /\ trace = <<>>

main_vars == <<directory, output, exclude, rootIsDir, tree, fault, outDirExists,
               outfile, startOut, run, pc, ignore_patterns, code_files, i, rc,
               trace>>

\* scan_directory(dir) with the patterns of the -x values
ScanFirst ==
    /\ q.phase = "start"
    /\ q' = [q EXCEPT !.phase = "first",
                      !.first = scan_directory(q.dir, q.tree, ignore_patterns_of(q.exclude))]
    /\ UNCHANGED main_vars

\* the same tree under another root path, same patterns
ScanMoved ==
    /\ q.phase = "first"
    /\ q' = [q EXCEPT !.phase = "moved",
                      !.moved = scan_directory(q.other, q.tree, ignore_patterns_of(q.exclude))]
    /\ UNCHANGED main_vars

\* the same tree and root with one more -x value
ScanExtended ==
    /\ q.phase = "moved"
    /\ q' = [q EXCEPT !.phase = "done",
                      !.extended = scan_directory(q.dir, q.tree,
                                      ignore_patterns_of(Append(q.exclude, q.more)))]
    /\ UNCHANGED main_vars

NextScan ==
    \/ ScanFirst
    \/ ScanMoved
    \/ ScanExtended

SpecScan == InitScan /\ [][NextScan]_vars

(* ------------------------------ helpers ------------------------------- *)
Range(s) == {s[k] : k \in 1..Len(s)}

RelPaths(files, root) == [k \in 1..Len(files) |-> os_path_relpath(files[k], root)]

\* the directories of a tree, each as its names from the root down
DirsOf(T) == UNION {{SubSeq(f.dir, 1, n) : n \in 1..Len(f.dir)} : f \in T}

Events(kind) == SelectSeq(trace, LAMBDA e : e[1] = kind)

Completed == pc = "exit" /\ rc = 0 /\ code_files # <<>>

\* the output path names a file that the scan of the root collects
OutputEligible ==
    /\ output.dir = "root"
    /\ is_code_file(output.name)
    /\ should_ignore(output.name, ignore_patterns_of(exclude)) = "no"

(* ----------------------------- properties ----------------------------- *)

\* C1: in every document a run completes, the index entries and the body
\* headings are the same sequence of relative paths, the relative paths of
\* the scan result in its order; while a document is being written the
\* headings are a prefix of the index.
C1_IndexMatchesBody ==
    /\ (outfile.exists /\ ~outfile.old) => IsPrefix(outfile.headings, outfile.index)
    /\ Completed =>
         /\ outfile.index = outfile.headings
         /\ outfile.index = RelPaths(code_files, directory)
         /\ outfile.total = Len(outfile.index)

C1_Witness ==
    /\ Completed
    /\ Len(outfile.index) >= 2
    /\ Len(outfile.headings) = Len(outfile.index)

\* C2: whenever the path of a directory, relative to the root, matches the
\* exclusion set, the scan returns no file below that directory.
C2_PrunedByRelativePath ==
    (q.phase = "first" /\ ~q.first.raised) =>
        \A D \in DirsOf(q.tree) :
            should_ignore(os_path_relpath(JoinAll(q.dir, D), q.dir),
                          ignore_patterns_of(q.exclude)) = "yes"
            => \A k \in 1..Len(q.first.files) :
                  ~IsPrefix(Append(JoinAll(q.dir, D), "/"), q.first.files[k])

\* C3: the relative paths a scan returns do not depend on the path of the
\* root: the same tree under another root gives the same relative paths.
C3_RootIndependent ==
    (q.phase = "moved" /\ ~q.first.raised /\ ~q.moved.raised) =>
        RelPaths(q.first.files, q.dir) = RelPaths(q.moved.files, q.other)

\* C4 as stated: after a second run with the same arguments, no operation
\* of either run failing, the output document is the one the first run
\* left, whatever the output path is.
C4_Idempotent ==
    (run >= 2 /\ Terminated /\ fault = "none") => outfile = startOut

\* C4 amended: after a second run with the same arguments the output
\* document is the one the first run left, provided the output path is not
\* itself a file that the scan of the root collects.
C4_IdempotentOutsideScan ==
    (run >= 2 /\ Terminated /\ ~OutputEligible) => outfile = startOut

C4_Witness ==
    /\ run >= 2
    /\ Completed
    /\ ~OutputEligible
    /\ output.dir = "root"
    /\ outfile.blocks # <<>>
    /\ outfile = startOut

\* C5: with one more -x value the scan returns a subset of what it returned
\* without it.
C5_Monotonic ==
    (q.phase = "done" /\ ~q.first.raised /\ ~q.extended.raised) =>
        Range(q.extended.files) \subseteq Range(q.first.files)

C5_Witness ==
    /\ q.phase = "done"
    /\ ~q.first.raised
    /\ ~q.extended.raised
    /\ q.extended.files # <<>>
    /\ Len(q.extended.files) < Len(q.first.files)

\* C6: reading a file never raises into the run: when nothing but reads
\* fails, every file of the scan result gets its block, a file that cannot
\* be opened gets the error placeholder, a file that is not UTF-8 gets its
\* text under a later encoding, and main returns 0.
C6_ReadFailuresStayLocal ==
    /\ <<"caught", "read">> \notin Range(trace)
    /\ (pc = "exit" /\ code_files # <<>> /\ fault = "none") =>
         /\ rc = 0
         /\ Len(outfile.blocks) = Len(code_files)
         /\ \A k \in 1..Len(code_files) :
               LET f    == FileAt(code_files[k])
                   rel  == os_path_relpath(code_files[k], directory)
                   text == outfile.blocks[k].content
               IN  /\ f.kind = "denied" => text = <<"# Erro ao ler arquivo", rel>>
                   /\ f.kind = "bytes"  => text = <<"content", rel, "latin-1">>
                   /\ f.kind = "utf8"   => text = <<"content", rel, "utf-8">>

C6_Witness ==
    /\ pc = "exit"
    /\ rc = 0
    /\ \E k \in 1..Len(code_files) :
          /\ k < Len(code_files)
          /\ FileAt(code_files[k]).kind = "denied"
          /\ outfile.blocks[k].content[1] = "# Erro ao ler arquivo"
          /\ Len(outfile.blocks) = Len(code_files)

\* C7: when the root is not a directory, main returns 1 without scanning,
\* and neither the output file nor its directory is created or changed.
C7_InvalidRoot ==
    ~rootIsDir =>
        /\ pc \in {"main", "exit"}
        /\ pc = "exit" => (rc = 1 /\ trace = << <<"not found", directory>> >>)
        /\ <<"scan">> \notin Range(trace)
        /\ code_files = <<>>
        /\ outfile = startOut
        /\ <<"makedirs">> \notin Range(trace)
        /\ output.dir = "root" => ~outDirExists
        /\ ~outDirExists => ~outfile.exists

C7_Witness ==
    /\ ~rootIsDir
    /\ pc = "exit"
    /\ rc = 1
    /\ output.dir = "new"
    /\ ~outDirExists
    /\ ~outfile.exists

\* C8 as stated: every failure, that of creating the output directory
\* included, is caught and main returns 1; main returns 0 otherwise.
C8_EveryFailureReturns1 ==
    Terminated =>
        rc = IF \/ ~rootIsDir
                \/ \E e \in Range(trace) : e[1] \in {"caught", "uncaught"}
             THEN 1 ELSE 0

\* C8 amended: main returns 1 when the root is not a directory or an
\* exception is raised inside generate_markdown (a pattern that does not
\* compile, the output file that cannot be opened, a write that fails), and
\* 0 in every other run that returns; a failure to create the output
\* directory is not caught: the exception leaves main, which returns nothing.
C8_ExitCodes ==
    Terminated =>
        IF <<"uncaught", "makedirs">> \in Range(trace)
        THEN pc = "raised" /\ rc = -1
        ELSE /\ pc = "exit"
             /\ rc = IF \/ ~rootIsDir
                        \/ \E e \in Range(trace) : e[1] = "caught"
                     THEN 1 ELSE 0
             /\ (fault \in {"open", "write"} /\ code_files # <<>>) => rc = 1
             /\ (rootIsDir /\ scan_directory(directory, Visible, ignore_patterns).raised
                 /\ code_files = <<>>) => rc = 1

C8_Witness ==
    /\ pc = "raised"
    /\ fault = "makedirs"
    /\ rc = -1
    /\ ~outDirExists

\* C9: when the scan returns no file the run reports it and returns 0
\* without opening the output path: the file there is as the run found it.
C9_NoFilesNoOutput ==
    (<<"scan">> \in Range(trace) /\ code_files = <<>>) =>
        /\ pc = "exit"
        /\ rc = 0
        /\ <<"no files">> \in Range(trace)
        /\ <<"open">> \notin Range(trace)
        /\ outfile = startOut

C9_Witness ==
    /\ pc = "exit"
    /\ <<"no files">> \in Range(trace)
    /\ tree # {}
    /\ startOut = Old
    /\ outfile = Old

\* C10: the scan is over before the output is opened or a file is read, the
\* whole index is written before the first read, and the files are read
\* once each and their blocks appended one at a time in ascending order of
\* their paths.
C10_Ordering ==
    /\ \A k \in 1..Len(trace) :
          /\ trace[k][1] \in {"open", "index", "read", "block"}
                => \E j \in 1..(k - 1) : trace[j] = <<"scan">>
          /\ trace[k][1] \in {"index", "read"}
                => \E j \in 1..(k - 1) : trace[j] = <<"open">>
          /\ trace[k][1] = "read"
                => /\ Len(SelectSeq(SubSeq(trace, 1, k - 1), LAMBDA e : e[1] = "index"))
                        = Len(code_files)
                   /\ \A j \in (k + 1)..Len(trace) : trace[j][1] # "index"
          /\ trace[k][1] = "block" => (k > 1 /\ trace[k - 1] = <<"read", trace[k][2]>>)
    /\ \A k \in 1..(Len(code_files) - 1) : StrLess(code_files[k], code_files[k + 1])
    /\ LET reads == Events("read")
       IN  /\ Len(reads) <= Len(code_files)
           /\ \A k \in 1..Len(reads) :
                 reads[k] = <<"read", os_path_relpath(code_files[k], directory)>>
           /\ Completed => Len(reads) = Len(code_files)
    /\ Completed => RelPaths(code_files, directory)
                      = [k \in 1..Len(outfile.blocks) |-> Events("block")[k][2]]

C10_Witness ==
    /\ Completed
    /\ Len(code_files) >= 3
    /\ Len(Events("read")) = Len(code_files)
    /\ Len(Events("block")) = Len(code_files)
====
